---- MODULE Spec2Model ----
(***************************************************************************)
(* Job poller / result reconciler of the LandingPage component.            *)
(*                                                                         *)
(* The component is a single-threaded event loop: every action below is    *)
(* one run-to-completion task (a click handler, a timer callback, the      *)
(* continuation of an awaited fetch) together with the React re-render and *)
(* the useEffect cleanup/effect that the state change of the task causes.  *)
(* The network and the backend are the environment: a request is sent,     *)
(* answered by the backend and its answer delivered later, in any order.    *)
(*                                                                         *)
(* Job identifiers: the job created for the k-th transmitted submission is *)
(* job k (the backend hands out fresh identifiers).  A timer handle is     *)
(* named after the job whose effect created it.                            *)
(***************************************************************************)
EXTENDS Integers, Sequences, FiniteSets, TLC

\* ---------------------------------------------------------------- bounds
MaxJobs == 3        \* submissions that transmit a start request
MaxReq == 3         \* progress requests issued over a behaviour
MaxSymLen == 3      \* characters typed into the symbol input
MaxTotal == 40      \* largest total of a progress snapshot

\* ------------------------------------------------------------- constants
NoJob == 0          \* jobId === null, result === null, intervalRef.current === null
Jobs == 1..MaxJobs
Modes == {"full", "dividendenwerte"}
Blank == " "
Tab == "\t"
WhiteSpace == {Blank, Tab}
SymbolInputs == { <<Blank>>, <<Blank, "m", "O", Blank>> }
SymbolInputsV == SymbolInputs \cup { <<"x">> }
LOCAL_SYMBOLS == { <<"M", "O">>, <<"J", "D">> }
NoProgress == [job |-> NoJob, status |-> "null"]
JobStatus == {"running", "done", "error"}
Failures == {"http404", "http500", "neterr"}

VARIABLES
    symbol,             \* useState: text of the symbol input
    analysisMode,       \* useState: the mode selector
    jobId,              \* useState: the job the polling effect is bound to
    progress,           \* useState: exposed progress snapshot
    result,             \* useState: exposed result (the job it belongs to)
    loading,            \* useState: busy flag, disables the Start button
    intervalRef,        \* useRef: handle of the polling timer
    activeJobModeRef,   \* useRef: mode of the job started last
    allSymbols,         \* useState: symbol list loaded by getSymbols
    symbolError,        \* useState (variant with symbol validation)
    timers,             \* live window.setInterval timers (their handles)
    reqs,               \* requests in flight
    backend,            \* backend status of each job
    submitted,          \* number of submissions that transmitted a start request
    nextSeq,            \* number of progress requests issued
    subMode,            \* history: mode selected when job k was submitted
    doneSeen,           \* history: jobs for which a done response was received
    errSeen,            \* history: jobs for which an error response was received
    resultCount,        \* history: result requests issued per job
    progressSeq,        \* history: the progress request whose answer wrote progress
    percent             \* StickyBar: the completion percentage it renders

vars == <<symbol, analysisMode, jobId, progress, result, loading, intervalRef,
          activeJobModeRef, allSymbols, symbolError, timers, reqs, backend,
          submitted, nextSeq, subMode, doneSeen, errSeen, resultCount,
          progressSeq, percent>>

\* ------------------------------------------------------- pure functions
UpperChar(c) ==
    CASE c = "m" -> "M"
      [] c = "o" -> "O"
      [] c = "x" -> "X"
      [] c = "j" -> "J"
      [] c = "d" -> "D"
      [] c = "a" -> "A"
      [] c = "b" -> "B"
      [] OTHER -> c

ToUpperCaseFirst(s) == [i \in 1..Len(s) |-> IF i = 1 THEN UpperChar(s[i]) ELSE s[i]]

\* String.prototype.toUpperCase
ToUpperCase(s) == [i \in 1..Len(s) |-> UpperChar(s[i])]

RECURSIVE TrimStart(_)
TrimStart(s) ==
    IF s # <<>> /\ Head(s) \in WhiteSpace THEN TrimStart(Tail(s)) ELSE s

RECURSIVE TrimEnd(_)
TrimEnd(s) ==
    IF s # <<>> /\ s[Len(s)] \in WhiteSpace THEN TrimEnd(SubSeq(s, 1, Len(s) - 1)) ELSE s

TrimNothing(s) == s

\* String.prototype.trim
Trim(s) == TrimEnd(TrimStart(s))

\* const clean = symbol.trim().toUpperCase()
Clean(s) == ToUpperCase(Trim(s))

\* The Error thrown by a client call that did not succeed, as a sequence of
\* words.  A rejected fetch (transport failure) throws the browser's
\* TypeError; a non-2xx answer throws the fixed message of the wrapper.
ErrorMessage(kind, mode, outcome) ==
    IF outcome = "neterr" THEN <<"Failed", "to", "fetch">>
    ELSE CASE kind = "start" /\ mode = "full" -> <<"Failed", "to", "start", "analysis">>
           [] kind = "start" /\ mode # "full" -> <<"Failed", "to", "start", "single", "analysis">>
           [] kind = "progress" /\ mode = "full" -> <<"Progress", "error">>
           [] kind = "progress" /\ mode # "full" -> <<"Single", "progress", "error">>
           [] kind = "result" /\ mode = "full" -> <<"Result", "error">>
           [] kind = "result" /\ mode # "full" -> <<"Single", "result", "error">>

\* msg.includes("404")
Includes404(msg) == \E i \in 1..Len(msg) : msg[i] = "404"

ClearIntervalNoop(ts, handle) == ts

\* window.clearInterval(handle)
ClearInterval(ts, handle) == ts \ {handle}

StopIntervalKeepsTimer(ts, ref) == ts

\* if (intervalRef.current !== null) { clearInterval(intervalRef.current); ... = null }
StopInterval(ts, ref) == IF ref # NoJob THEN ClearInterval(ts, ref) ELSE ts

IsDoneNotRunning(status) == status # "running"

\* p.status === "done"
IsDone(status) == status = "done"

IsErrorNever(status) == FALSE

\* p.status === "error"
IsError(status) == status = "error"

CatchLoadingOnlyLogs(kind, mode, outcome, busy) == busy

\* catch (e): if (msg.includes("404")) return; ... setLoading(false)
CatchLoading(kind, mode, outcome, busy) ==
    IF Includes404(ErrorMessage(kind, mode, outcome)) THEN busy ELSE FALSE

\* the request a call of poll() of the effect bound to job j sends before
\* its first await: the endpoint family and its mode parameter are read from
\* activeJobModeRef.current at the time of the call
PollRequest(j, activeMode, seq, status) ==
    [kind |-> "progress", job |-> j, mode |-> activeMode, seq |-> seq, sentAt |-> status]

ResultRequest(r) ==
    [kind |-> "result", job |-> r.job, mode |-> r.mode, seq |-> r.seq, sentAt |-> "done"]

SymbolsRequest ==
    [kind |-> "symbols", job |-> NoJob, mode |-> "full", seq |-> 0, sentAt |-> "none"]

\* startFullAnalysis(clean) / startSingleAnalysisJob(clean, analysisMode)
StartRequest(k, mode, clean) ==
    [kind |-> "start", job |-> k, mode |-> mode, seq |-> 0, sentAt |-> "none",
     symbol |-> clean]

\* ------------------------------------------------------------------ Init
Init ==
    /\ symbol = <<>>
    /\ analysisMode = "full"
    /\ jobId = NoJob
    /\ progress = NoProgress
    /\ result = NoJob
    /\ loading = FALSE
    /\ intervalRef = NoJob
    /\ activeJobModeRef = "full"
    /\ allSymbols = {}
    /\ symbolError = FALSE
    /\ timers = {}
    /\ reqs = {}
    /\ backend = [j \in Jobs |-> "none"]
    /\ submitted = 0
    /\ nextSeq = 0
    /\ subMode = [j \in Jobs |-> "none"]
    /\ doneSeen = {}
    /\ errSeen = {}
    /\ resultCount = [j \in Jobs |-> 0]
    /\ progressSeq = 0
    /\ percent = 0

\* --------------------------------------------------------------- actions
\* <input onChange> / dropdown onMouseDown
SetSymbol(s) ==
    /\ symbol # s
    /\ symbol' = s
    /\ UNCHANGED <<percent, analysisMode, jobId, progress, result, loading, intervalRef,
                   activeJobModeRef, allSymbols, symbolError, timers, reqs, backend,
                   submitted, nextSeq, subMode, doneSeen, errSeen, resultCount,
                   progressSeq>>

SetAnalysisModeRepins(m) ==
    /\ analysisMode # m
    /\ analysisMode' = m
    /\ activeJobModeRef' = m
    /\ UNCHANGED <<percent, symbol, jobId, progress, result, loading, intervalRef,
                   allSymbols, symbolError, timers, reqs, backend,
                   submitted, nextSeq, subMode, doneSeen, errSeen, resultCount,
                   progressSeq>>

\* <select onChange>
SetAnalysisMode(m) ==
    /\ analysisMode # m
    /\ analysisMode' = m
    /\ UNCHANGED <<percent, symbol, jobId, progress, result, loading, intervalRef,
                   activeJobModeRef, allSymbols, symbolError, timers, reqs, backend,
                   submitted, nextSeq, subMode, doneSeen, errSeen, resultCount,
                   progressSeq>>

OnStartAnyTime ==
    /\ result' = NoJob
    /\ progress' = NoProgress
    /\ progressSeq' = 0
    /\ jobId' = NoJob
    /\ IF jobId # NoJob
         THEN /\ timers' = StopInterval(timers, intervalRef)
              /\ intervalRef' = NoJob
         ELSE UNCHANGED <<timers, intervalRef>>
    /\ IF Clean(symbol) = <<>>
         THEN UNCHANGED <<loading, activeJobModeRef, reqs, submitted, subMode>>
         ELSE /\ submitted < MaxJobs
              /\ loading' = TRUE
              /\ activeJobModeRef' = analysisMode
              /\ submitted' = submitted + 1
              /\ subMode' = [subMode EXCEPT ![submitted + 1] = analysisMode]
              /\ reqs' = reqs \cup {StartRequest(submitted + 1, analysisMode, Clean(symbol))}
    /\ UNCHANGED <<percent, symbol, analysisMode, allSymbols, symbolError, backend, nextSeq,
                   doneSeen, errSeen, resultCount>>

\* Click on Start: onStart up to its first await, then the re-render.
\* setJobId(null) changes jobId only when a job was bound; the cleanup of
\* that job's effect then runs and the new effect returns at (!jobId).
OnStart ==
    /\ ~loading                                   \* <button disabled={loading}>
    /\ result' = NoJob
    /\ progress' = NoProgress
    /\ progressSeq' = 0
    /\ jobId' = NoJob
    /\ IF jobId # NoJob
         THEN /\ timers' = StopInterval(timers, intervalRef)
              /\ intervalRef' = NoJob
         ELSE UNCHANGED <<timers, intervalRef>>
    /\ IF Clean(symbol) = <<>>
         THEN UNCHANGED <<loading, activeJobModeRef, reqs, submitted, subMode>>
         ELSE /\ submitted < MaxJobs
              /\ loading' = TRUE
              /\ activeJobModeRef' = analysisMode
              /\ submitted' = submitted + 1
              /\ subMode' = [subMode EXCEPT ![submitted + 1] = analysisMode]
              /\ reqs' = reqs \cup {StartRequest(submitted + 1, analysisMode, Clean(symbol))}
    /\ UNCHANGED <<percent, symbol, analysisMode, allSymbols, symbolError, backend, nextSeq,
                   doneSeen, errSeen, resultCount>>

\* The backend: a job exists once its start request succeeded; its status only
\* moves from running to done or error.

BackendFinish(j, s) ==
    /\ backend[j] = "running"
    /\ s \in {"done", "error"}
    /\ backend' = [backend EXCEPT ![j] = s]
    /\ UNCHANGED <<percent, symbol, analysisMode, jobId, progress, result, loading, intervalRef,
                   activeJobModeRef, allSymbols, symbolError, timers, reqs,
                   submitted, nextSeq, subMode, doneSeen, errSeen, resultCount,
                   progressSeq>>

\* The answers a progress request can get: a failure, or the status the job
\* had at some moment between the sending of the request and the arrival of
\* its answer (answers of overlapping requests arrive in any order).
ProgressOutcomes(r) ==
    Failures \cup {backend[r.job]} \cup (IF r.sentAt = "running" THEN {"running"} ELSE {})

StartResponseKeepsBusy(r, outcome) ==
    /\ r \in reqs
    /\ r.kind = "start"
    /\ outcome \in Failures \cup {"ok"}
    /\ IF outcome = "ok"
         THEN LET cleanedTimers == IF jobId # NoJob
                                     THEN StopInterval(timers, intervalRef) ELSE timers
                  cleanedRef == IF jobId # NoJob THEN NoJob ELSE intervalRef
              IN  /\ nextSeq < MaxReq
                  /\ jobId' = r.job
                  /\ timers' = StopInterval(cleanedTimers, cleanedRef) \cup {r.job}
                  /\ intervalRef' = r.job
                  /\ nextSeq' = nextSeq + 1
                  /\ backend' = [backend EXCEPT ![r.job] = "running"]
                  /\ reqs' = (reqs \ {r}) \cup
                             {PollRequest(r.job, activeJobModeRef, nextSeq + 1, "running")}
                  /\ UNCHANGED loading
         ELSE /\ UNCHANGED loading
              /\ reqs' = reqs \ {r}
              /\ UNCHANGED <<jobId, timers, intervalRef, nextSeq, backend>>
    /\ UNCHANGED <<percent, symbol, analysisMode, progress, result, activeJobModeRef, allSymbols,
                   symbolError, submitted, subMode, doneSeen, errSeen, resultCount,
                   progressSeq>>

\* onStart after its await.  Success: setJobId(data.job_id); the re-render
\* runs the cleanup of the effect of the job bound before (if any), then the
\* effect of the new job: stop the interval in intervalRef, poll(), setInterval.
\* Failure: catch, setLoading(false).
StartResponse(r, outcome) ==
    /\ r \in reqs
    /\ r.kind = "start"
    /\ outcome \in Failures \cup {"ok"}
    /\ IF outcome = "ok"
         THEN LET cleanedTimers == IF jobId # NoJob
                                     THEN StopInterval(timers, intervalRef) ELSE timers
                  cleanedRef == IF jobId # NoJob THEN NoJob ELSE intervalRef
              IN  /\ nextSeq < MaxReq
                  /\ jobId' = r.job
                  /\ timers' = StopInterval(cleanedTimers, cleanedRef) \cup {r.job}
                  /\ intervalRef' = r.job
                  /\ nextSeq' = nextSeq + 1
                  /\ backend' = [backend EXCEPT ![r.job] = "running"]
                  /\ reqs' = (reqs \ {r}) \cup
                             {PollRequest(r.job, activeJobModeRef, nextSeq + 1, "running")}
                  /\ UNCHANGED loading
         ELSE /\ loading' = FALSE
              /\ reqs' = reqs \ {r}
              /\ UNCHANGED <<jobId, timers, intervalRef, nextSeq, backend>>
    /\ UNCHANGED <<percent, symbol, analysisMode, progress, result, activeJobModeRef, allSymbols,
                   symbolError, submitted, subMode, doneSeen, errSeen, resultCount,
                   progressSeq>>

TickWhenIdle(j) ==
    /\ j \in timers
    /\ nextSeq < MaxReq
    /\ \A q \in reqs : ~(q.kind = "progress" /\ q.job = j)
    /\ nextSeq' = nextSeq + 1
    /\ reqs' = reqs \cup {PollRequest(j, activeJobModeRef, nextSeq + 1, backend[j])}
    /\ UNCHANGED <<percent, symbol, analysisMode, jobId, progress, result, loading, intervalRef,
                   activeJobModeRef, allSymbols, symbolError, timers, backend,
                   submitted, subMode, doneSeen, errSeen, resultCount,
                   progressSeq>>

\* A tick of the 700 ms timer of the effect bound to job j: poll() up to its await.
Tick(j) ==
    /\ j \in timers
    /\ nextSeq < MaxReq
    /\ nextSeq' = nextSeq + 1
    /\ reqs' = reqs \cup {PollRequest(j, activeJobModeRef, nextSeq + 1, backend[j])}
    /\ UNCHANGED <<percent, symbol, analysisMode, jobId, progress, result, loading, intervalRef,
                   activeJobModeRef, allSymbols, symbolError, timers, backend,
                   submitted, subMode, doneSeen, errSeen, resultCount,
                   progressSeq>>

ProgressResponseCatchStops(r, outcome) ==
    /\ r \in reqs
    /\ r.kind = "progress"
    /\ outcome \in ProgressOutcomes(r)
    /\ IF outcome \in JobStatus
         THEN /\ progress' = [job |-> r.job, status |-> outcome]
              /\ progressSeq' = r.seq
              /\ IF IsDone(outcome)
                   THEN /\ timers' = StopInterval(timers, intervalRef)
                        /\ intervalRef' = NoJob
                        /\ reqs' = (reqs \ {r}) \cup {ResultRequest(r)}
                        /\ resultCount' = [resultCount EXCEPT ![r.job] = @ + 1]
                        /\ UNCHANGED loading
                   ELSE IF IsError(outcome)
                   THEN /\ timers' = StopInterval(timers, intervalRef)
                        /\ intervalRef' = NoJob
                        /\ loading' = FALSE
                        /\ reqs' = reqs \ {r}
                        /\ UNCHANGED resultCount
                   ELSE /\ reqs' = reqs \ {r}
                        /\ UNCHANGED <<timers, intervalRef, loading, resultCount>>
         ELSE /\ reqs' = reqs \ {r}
              /\ loading' = CatchLoading(r.kind, r.mode, outcome, loading)
              /\ timers' = StopInterval(timers, intervalRef)
              /\ intervalRef' = NoJob
              /\ UNCHANGED <<progress, progressSeq, resultCount>>
    /\ doneSeen' = IF outcome = "done" THEN doneSeen \cup {r.job} ELSE doneSeen
    /\ errSeen' = IF outcome = "error" THEN errSeen \cup {r.job} ELSE errSeen
    /\ UNCHANGED <<percent, symbol, analysisMode, jobId, result, activeJobModeRef, allSymbols,
                   symbolError, backend, submitted, nextSeq, subMode>>

\* poll() after the await of getProgress / getSingleProgress.  The history
\* variables record what was received and sent, whatever the branch taken.
ProgressResponse(r, outcome) ==
    /\ r \in reqs
    /\ r.kind = "progress"
    /\ outcome \in ProgressOutcomes(r)
    /\ IF outcome \in JobStatus
         THEN /\ progress' = [job |-> r.job, status |-> outcome]
              /\ progressSeq' = r.seq
              /\ IF IsDone(outcome)
                   THEN /\ timers' = StopInterval(timers, intervalRef)
                        /\ intervalRef' = NoJob
                        /\ reqs' = (reqs \ {r}) \cup {ResultRequest(r)}
                        /\ resultCount' = [resultCount EXCEPT ![r.job] = @ + 1]
                        /\ UNCHANGED loading
                   ELSE IF IsError(outcome)
                   THEN /\ timers' = StopInterval(timers, intervalRef)
                        /\ intervalRef' = NoJob
                        /\ loading' = FALSE
                        /\ reqs' = reqs \ {r}
                        /\ UNCHANGED resultCount
                   ELSE /\ reqs' = reqs \ {r}
                        /\ UNCHANGED <<timers, intervalRef, loading, resultCount>>
         ELSE /\ reqs' = reqs \ {r}
              /\ loading' = CatchLoading(r.kind, r.mode, outcome, loading)
              /\ UNCHANGED <<progress, progressSeq, timers, intervalRef, resultCount>>
    /\ doneSeen' = IF outcome = "done" THEN doneSeen \cup {r.job} ELSE doneSeen
    /\ errSeen' = IF outcome = "error" THEN errSeen \cup {r.job} ELSE errSeen
    /\ UNCHANGED <<percent, symbol, analysisMode, jobId, result, activeJobModeRef, allSymbols,
                   symbolError, backend, submitted, nextSeq, subMode>>

\* poll() after the await of getResult / getSingleResult.
ResultResponse(r, outcome) ==
    /\ r \in reqs
    /\ r.kind = "result"
    /\ outcome \in Failures \cup {"ok"}
    /\ reqs' = reqs \ {r}
    /\ IF outcome = "ok"
         THEN /\ result' = r.job
              /\ loading' = FALSE
         ELSE /\ loading' = CatchLoading(r.kind, r.mode, outcome, loading)
              /\ UNCHANGED result
    /\ UNCHANGED <<percent, symbol, analysisMode, jobId, progress, intervalRef, activeJobModeRef,
                   allSymbols, symbolError, timers, backend, submitted, nextSeq,
                   subMode, doneSeen, errSeen, resultCount,
                   progressSeq>>

Outcomes == Failures \cup JobStatus \cup {"ok"}

Next ==
    \/ \E s \in SymbolInputs : SetSymbol(s)
    \/ \E m \in Modes : SetAnalysisMode(m)
    \/ OnStart
    \/ \E j \in Jobs, s \in {"done", "error"} : BackendFinish(j, s)
    \/ \E r \in reqs, o \in Outcomes : StartResponse(r, o)
    \/ \E j \in timers : Tick(j)
    \/ \E r \in reqs, o \in Outcomes : ProgressResponse(r, o)
    \/ \E r \in reqs, o \in Outcomes : ResultResponse(r, o)

Spec == Init /\ [][Next]_vars

\* ------------------------------------------------------------------------
\* The LandingPage variant with symbol validation.  Its onStart, its poll
\* and its mount effect differ from the ones above; everything else is the
\* same code.

\* useEffect(() => { getSymbols().then(setAllSymbols).catch(...) }, []) has
\* run: the request for the symbol list is in flight.
InitV ==
    /\ symbol = <<>>
    /\ analysisMode = "full"
    /\ jobId = NoJob
    /\ progress = NoProgress
    /\ result = NoJob
    /\ loading = FALSE
    /\ intervalRef = NoJob
    /\ activeJobModeRef = "full"
    /\ allSymbols = {}
    /\ symbolError = FALSE
    /\ timers = {}
    /\ reqs = {SymbolsRequest}
    /\ backend = [j \in Jobs |-> "none"]
    /\ submitted = 0
    /\ nextSeq = 0
    /\ subMode = [j \in Jobs |-> "none"]
    /\ doneSeen = {}
    /\ errSeen = {}
    /\ resultCount = [j \in Jobs |-> 0]
    /\ progressSeq = 0
    /\ percent = 0

\* getSymbols().then(setAllSymbols).catch(console.error)
GetSymbolsResponse(r, outcome) ==
    /\ r \in reqs
    /\ r.kind = "symbols"
    /\ outcome \in Failures \cup {"ok"}
    /\ reqs' = reqs \ {r}
    /\ allSymbols' = IF outcome = "ok" THEN LOCAL_SYMBOLS ELSE allSymbols
    /\ UNCHANGED <<percent, symbol, analysisMode, jobId, progress, result, loading, intervalRef,
                   activeJobModeRef, symbolError, timers, backend, submitted, nextSeq,
                   subMode, doneSeen, errSeen, resultCount,
                   progressSeq>>

MatchAnything(list, clean) == TRUE

\* const match = allSymbols.find((s) => s.symbol === clean); if (!match) ...
Match(list, clean) == clean \in list

\* Click on Start in the variant: the clean symbol must be in allSymbols.
OnStartV ==
    /\ ~loading
    /\ result' = NoJob
    /\ progress' = NoProgress
    /\ progressSeq' = 0
    /\ jobId' = NoJob
    /\ IF jobId # NoJob
         THEN /\ timers' = StopInterval(timers, intervalRef)
              /\ intervalRef' = NoJob
         ELSE UNCHANGED <<timers, intervalRef>>
    /\ IF Clean(symbol) = <<>>
         THEN /\ symbolError' = FALSE
              /\ UNCHANGED <<loading, activeJobModeRef, reqs, submitted, subMode>>
         ELSE IF ~Match(allSymbols, Clean(symbol))
         THEN /\ symbolError' = TRUE
              /\ UNCHANGED <<loading, activeJobModeRef, reqs, submitted, subMode>>
         ELSE /\ submitted < MaxJobs
              /\ symbolError' = FALSE
              /\ loading' = TRUE
              /\ activeJobModeRef' = analysisMode
              /\ submitted' = submitted + 1
              /\ subMode' = [subMode EXCEPT ![submitted + 1] = analysisMode]
              /\ reqs' = reqs \cup {StartRequest(submitted + 1, analysisMode, Clean(symbol))}
    /\ UNCHANGED <<percent, symbol, analysisMode, allSymbols, backend, nextSeq,
                   doneSeen, errSeen, resultCount>>

\* poll() of the variant after the await of getProgress / getSingleProgress:
\* only status done is acted upon, and the catch only logs.
ProgressResponseV(r, outcome) ==
    /\ r \in reqs
    /\ r.kind = "progress"
    /\ outcome \in ProgressOutcomes(r)
    /\ IF outcome \in JobStatus
         THEN /\ progress' = [job |-> r.job, status |-> outcome]
              /\ progressSeq' = r.seq
              /\ IF IsDone(outcome)
                   THEN /\ timers' = StopInterval(timers, intervalRef)
                        /\ intervalRef' = NoJob
                        /\ reqs' = (reqs \ {r}) \cup {ResultRequest(r)}
                        /\ resultCount' = [resultCount EXCEPT ![r.job] = @ + 1]
                   ELSE /\ reqs' = reqs \ {r}
                        /\ UNCHANGED <<timers, intervalRef, resultCount>>
         ELSE /\ reqs' = reqs \ {r}
              /\ UNCHANGED <<progress, progressSeq, timers, intervalRef, resultCount>>
    /\ doneSeen' = IF outcome = "done" THEN doneSeen \cup {r.job} ELSE doneSeen
    /\ errSeen' = IF outcome = "error" THEN errSeen \cup {r.job} ELSE errSeen
    /\ UNCHANGED <<percent, symbol, analysisMode, jobId, result, loading, activeJobModeRef,
                   allSymbols, symbolError, backend, submitted, nextSeq, subMode>>

\* poll() of the variant after the await of getResult / getSingleResult.
ResultResponseV(r, outcome) ==
    /\ r \in reqs
    /\ r.kind = "result"
    /\ outcome \in Failures \cup {"ok"}
    /\ reqs' = reqs \ {r}
    /\ IF outcome = "ok"
         THEN /\ result' = r.job
              /\ loading' = FALSE
         ELSE UNCHANGED <<result, loading>>
    /\ UNCHANGED <<percent, symbol, analysisMode, jobId, progress, intervalRef, activeJobModeRef,
                   allSymbols, symbolError, timers, backend, submitted, nextSeq,
                   subMode, doneSeen, errSeen, resultCount,
                   progressSeq>>

NextV ==
    \/ \E s \in SymbolInputsV : SetSymbol(s)
    \/ \E m \in Modes : SetAnalysisMode(m)
    \/ \E r \in reqs, o \in Outcomes : GetSymbolsResponse(r, o)
    \/ OnStartV
    \/ \E j \in Jobs, s \in {"done", "error"} : BackendFinish(j, s)
    \/ \E r \in reqs, o \in Outcomes : StartResponse(r, o)
    \/ \E j \in timers : Tick(j)
    \/ \E r \in reqs, o \in Outcomes : ProgressResponseV(r, o)
    \/ \E r \in reqs, o \in Outcomes : ResultResponseV(r, o)

SpecV == InitV /\ [][NextV]_vars

\* ------------------------------------------------------------------------
\* The page when every request is answered successfully, with the scheduling
\* the browser guarantees: a live interval timer keeps firing and every
\* outstanding request is eventually answered.  Clicks and edits of the user
\* are not forced.
Successes == JobStatus \cup {"ok"}

NextLive ==
    \/ \E s \in SymbolInputs : SetSymbol(s)
    \/ \E m \in Modes : SetAnalysisMode(m)
    \/ OnStart
    \/ \E j \in Jobs, s \in {"done", "error"} : BackendFinish(j, s)
    \/ \E r \in reqs, o \in Successes : StartResponse(r, o)
    \/ \E j \in timers : Tick(j)
    \/ \E r \in reqs, o \in Successes : ProgressResponse(r, o)
    \/ \E r \in reqs, o \in Successes : ResultResponse(r, o)

SpecLive ==
    /\ Init
    /\ [][NextLive]_vars
    /\ WF_vars(\E j \in timers : Tick(j))
    /\ WF_vars(\E r \in reqs, o \in Successes : StartResponse(r, o))
    /\ WF_vars(\E r \in reqs, o \in Successes : ProgressResponse(r, o))
    /\ WF_vars(\E r \in reqs, o \in Successes : ResultResponse(r, o))

\* ------------------------------------------------------------------------
\* Symbol normalization: the user has typed any short text of letters of
\* either case, blanks and tabs into the symbol input, then clicks Start.
NormAlphabet == WhiteSpace \cup {"a", "b", "A", "B"}

NormInputs == UNION { [1..n -> NormAlphabet] : n \in 0..MaxSymLen }

InitNorm ==
    /\ symbol \in NormInputs
    /\ analysisMode = "full"
    /\ jobId = NoJob
    /\ progress = NoProgress
    /\ result = NoJob
    /\ loading = FALSE
    /\ intervalRef = NoJob
    /\ activeJobModeRef = "full"
    /\ allSymbols = {}
    /\ symbolError = FALSE
    /\ timers = {}
    /\ reqs = {}
    /\ backend = [j \in Jobs |-> "none"]
    /\ submitted = 0
    /\ nextSeq = 0
    /\ subMode = [j \in Jobs |-> "none"]
    /\ doneSeen = {}
    /\ errSeen = {}
    /\ resultCount = [j \in Jobs |-> 0]
    /\ progressSeq = 0
    /\ percent = 0

NextNorm == OnStart

SpecNorm == InitNorm /\ [][NextNorm]_vars

\* ------------------------------------------------------------------------
\* The arithmetic of StickyBar.  done and total are JavaScript numbers: the
\* quotient and the product are rounded to the nearest binary64 value (ties
\* to even).  A positive number is a record [bits, exp]: the significant bits,
\* most significant first, and the binary exponent of the last of them.
MantissaBits == 53
ChunkBits == 12     \* the product is computed ChunkBits bits at a time

RECURSIVE BitsValue(_)
BitsValue(bits) ==
    IF bits = <<>> THEN 0
    ELSE 2 * BitsValue(SubSeq(bits, 1, Len(bits) - 1)) + bits[Len(bits)]

\* the w-bit numeral of n
Numeral(n, w) == SubSeq([i \in 1..w |-> (n \div 2^(w - i)) % 2], 1, w)

StripLeadingZeros(bits) ==
    IF \A i \in 1..Len(bits) : bits[i] = 0 THEN <<>>
    ELSE LET first == CHOOSE i \in 1..Len(bits) :
                         bits[i] = 1 /\ \A j \in 1..(i - 1) : bits[j] = 0
         IN  SubSeq(bits, first, Len(bits))

Increment(bits) ==
    IF \A i \in 1..Len(bits) : bits[i] = 1
      THEN <<1>> \o [i \in 1..Len(bits) |-> 0]
      ELSE LET last == CHOOSE i \in 1..Len(bits) :
                          bits[i] = 0 /\ \A j \in (i + 1)..Len(bits) : bits[j] = 1
           IN  SubSeq(bits, 1, last - 1) \o <<1>> \o [i \in 1..(Len(bits) - last) |-> 0]

\* round to MantissaBits significant bits, to nearest, ties to even
RoundToNearestEven(x) ==
    IF Len(x.bits) <= MantissaBits THEN x
    ELSE LET keep == SubSeq(x.bits, 1, MantissaBits)
             guard == x.bits[MantissaBits + 1]
             sticky == \E i \in (MantissaBits + 2)..Len(x.bits) : x.bits[i] = 1
             up == guard = 1 /\ (sticky \/ keep[MantissaBits] = 1)
         IN  [bits |-> IF up THEN Increment(keep) ELSE keep,
              exp |-> x.exp + (Len(x.bits) - MantissaBits)]

\* the s with t <= n * 2^s < 2 * t, for 0 < n <= t
RECURSIVE LeadingShift(_, _)
LeadingShift(n, t) == IF n >= t THEN 0 ELSE 1 + LeadingShift(2 * n, t)

\* 2^i modulo t, for i up to 60
Pow2Mod(i, t) == ((2^(i \div 2) % t) * (2^(i - i \div 2) % t)) % t

\* binary long division of r by t, for r < t: what is left after i bits
Remainder(r, t, i) == (r * Pow2Mod(i, t)) % t

\* the first k bits of r / t after the binary point, then one more bit
\* telling whether anything is left
QuotientBits(r, t, k) ==
    SubSeq([i \in 1..k |-> IF 2 * Remainder(r, t, i - 1) >= t THEN 1 ELSE 0], 1, k)
       \o <<IF Remainder(r, t, k) # 0 THEN 1 ELSE 0>>

\* progress.done / progress.total, for 0 < done <= total
Divide(d, t) ==
    LET s == LeadingShift(d, t)
        n == d * 2^s
    IN  RoundToNearestEven([bits |-> <<1>> \o QuotientBits(n - t, t, MantissaBits),
                            exp |-> (0 - s) - (MantissaBits + 1)])

\* bits * c + carry, computed from the last chunk of bits to the first
RECURSIVE TimesCarry(_, _, _)
TimesCarry(bits, c, carry) ==
    IF bits = <<>> THEN StripLeadingZeros(Numeral(carry, ChunkBits))
    ELSE LET w == IF Len(bits) < ChunkBits THEN Len(bits) ELSE ChunkBits
             v == BitsValue(SubSeq(bits, Len(bits) - w + 1, Len(bits))) * c + carry
         IN  TimesCarry(SubSeq(bits, 1, Len(bits) - w), c, v \div 2^w)
                \o Numeral(v % 2^w, w)

\* x * 100
Times(x, c) ==
    RoundToNearestEven([bits |-> StripLeadingZeros(TimesCarry(x.bits, c, 0)),
                        exp |-> x.exp])

\* Math.round of a positive number with fraction bits: the nearest integer,
\* a tie goes up
MathRound(x) ==
    LET k == 0 - x.exp
        n == Len(x.bits)
        whole == IF k >= n THEN 0 ELSE BitsValue(SubSeq(x.bits, 1, n - k))
        half == IF k >= 1 /\ k <= n THEN x.bits[n - k + 1] ELSE 0
    IN  whole + half

\* const percent = progress && progress.total > 0
\*     ? Math.round((progress.done / progress.total) * 100) : 0
Percent(p) ==
    IF p # NoProgress /\ p.total > 0
      THEN IF p.done = 0 THEN 0 ELSE MathRound(Times(Divide(p.done, p.total), 100))
      ELSE 0

\* the snapshots the backend reports: 0 <= done <= total
Snapshots ==
    { [job |-> 1, status |-> "running", done |-> d, total |-> t] :
        d \in 0..MaxTotal, t \in 0..MaxTotal }

\* setProgress(p) and the render of StickyBar that follows; the snapshots of
\* a job have one total, and done does not decrease
SetProgress(p) ==
    /\ p.done <= p.total
    /\ progress # NoProgress => (p.total = progress.total /\ p.done >= progress.done)
    /\ progress' = p
    /\ percent' = Percent(p)
    /\ UNCHANGED <<symbol, analysisMode, jobId, result, loading, intervalRef,
                   activeJobModeRef, allSymbols, symbolError, timers, reqs, backend,
                   submitted, nextSeq, subMode, doneSeen, errSeen, resultCount,
                   progressSeq>>

NextBar == \E p \in Snapshots : SetProgress(p)

SpecBar == Init /\ [][NextBar]_vars

TypeOK ==
    /\ jobId \in Jobs \cup {NoJob}
    /\ intervalRef \in Jobs \cup {NoJob}
    /\ timers \subseteq Jobs
    /\ loading \in BOOLEAN

\* ---------------------------------------------------------------- claims
\* r's answer is handled in this step
Delivered(r) == r \in reqs /\ r \notin reqs'

\* the requests sent in this step
Sent == reqs' \ reqs

\* C1: once a submission for a later job has been initiated, handling the
\* answer to a progress or result request of an earlier job changes none of
\* progress, result and loading.
C1_NoStaleUpdate ==
    [][\A r \in reqs :
          (Delivered(r) /\ r.kind \in {"progress", "result"} /\ r.job < submitted)
             => UNCHANGED <<progress, result, loading>>]_vars

\* C2: the job being polled is unset or the job of the most recently
\* initiated submission.
C2_OnlyLatestJob == jobId = NoJob \/ jobId = submitted

\* C3: every progress and result request of a job uses the mode that was
\* selected when that job was submitted.
C3_ModePinned ==
    \A r \in reqs : r.kind \in {"progress", "result"} => r.mode = subMode[r.job]

\* C4: a result request is issued only for a job for which a progress
\* response with status done has been received.
C4_ResultOnlyAfterDone ==
    /\ \A r \in reqs : r.kind = "result" => r.job \in doneSeen
    /\ \A j \in Jobs : resultCount[j] > 0 => j \in doneSeen

C4_Witness ==
    \E r \in reqs : r.kind = "result" /\ r.job \in doneSeen /\ r.job \notin errSeen

\* C5: the result request of a job is issued at most once.
C5_ResultOnce == \A j \in Jobs : resultCount[j] <= 1

\* C6: at most one polling timer is live, and the handle of a live timer is
\* the one stored in intervalRef.
C6_OneTimerWithHandle ==
    /\ Cardinality(timers) <= 1
    /\ \A h \in timers : h = intervalRef

\* job 2 is polled after job 1 was superseded while its timer was running
\* (no terminal status of job 1 was ever received)
C6_Witness ==
    /\ timers = {2}
    /\ intervalRef = 2
    /\ backend[1] = "running"
    /\ 1 \notin doneSeen \cup errSeen

\* C7: after a progress response with status error was received for a job,
\* no progress request is issued for that job.
C7_TerminalStop ==
    [][\A q \in Sent : q.kind = "progress" => q.job \notin errSeen']_vars

C7_Witness ==
    \E j \in errSeen : jobId = j /\ j \notin timers /\ nextSeq < MaxReq /\ j \notin doneSeen

\* C8: handling a progress response with status error issues no result
\* request, clears loading and exposes the error snapshot, on the aggregate
\* and on the single-mode path.
C8_ErrorSurfaced ==
    [][\A r \in reqs :
          ProgressResponse(r, "error")
             => /\ Sent = {}
                /\ loading' = FALSE
                /\ progress' = [job |-> r.job, status |-> "error"]]_vars

C8_Witness ==
    /\ progress.status = "error"
    /\ progress.job \in errSeen
    /\ subMode[progress.job] # "full"
    /\ ~loading
    /\ resultCount[progress.job] = 0

\* C9: in the variant with symbol validation, handling a progress response
\* with status error stops the polling timer and clears loading.
C9_VariantErrorStops ==
    [][\A r \in reqs :
          ProgressResponseV(r, "error") => (loading' = FALSE /\ r.job \notin timers')]_vars

\* C10: after a progress response with status done was received for a job,
\* no progress request is issued for that job; a successful result response
\* stores the result and clears loading.
C10_DoneStopsPolling ==
    [][/\ \A q \in Sent : q.kind = "progress" => q.job \notin doneSeen'
       /\ \A r \in reqs :
             ResultResponse(r, "ok") => (result' = r.job /\ loading' = FALSE)]_vars

C10_Witness ==
    \E j \in doneSeen : result = j /\ ~loading /\ j \notin timers /\ nextSeq < MaxReq

\* C11: a progress request answered with HTTP 404 is ignored: the timer keeps
\* running and progress, result and loading are left unchanged.
C11_NotFoundIgnored ==
    [][\A r \in reqs :
          ProgressResponse(r, "http404")
             => UNCHANGED <<progress, result, loading, timers, intervalRef>>]_vars

\* C12: a progress request that fails for another reason than not-found
\* leaves the polling timer live, and a tick of the timer of a job issues a
\* progress request for that job.
C12_FailureKeepsPolling ==
    [][/\ \A r \in reqs, o \in {"http500", "neterr"} :
             ProgressResponse(r, o) => UNCHANGED <<timers, intervalRef>>
       /\ \A j \in timers :
             Tick(j) => \E q \in Sent : q.kind = "progress" /\ q.job = j]_vars

\* job 1 is still polled (second request issued by the timer) although the
\* catch of a failed poll has cleared loading
C12_Witness ==
    /\ submitted = 1
    /\ jobId = 1
    /\ timers = {1}
    /\ ~loading
    /\ 1 \notin doneSeen \cup errSeen
    /\ \E q \in reqs : q.kind = "progress" /\ q.job = 1 /\ q.seq = 2

\* C13: a failed start request creates no job: its handling leaves jobId and
\* the timers alone, sends nothing and clears loading, and the job of a
\* submission whose start request did not succeed is never bound, never has a
\* timer and is never asked about.
C13_StartFailure ==
    [][/\ \A r \in reqs, o \in Failures :
             StartResponse(r, o)
                => /\ UNCHANGED <<jobId, timers, intervalRef>>
                   /\ Sent = {}
                   /\ loading' = FALSE
       /\ \A k \in Jobs :
             backend'[k] = "none"
                => /\ jobId' # k
                   /\ k \notin timers'
                   /\ \A q \in reqs' : q.kind \in {"progress", "result"} => q.job # k]_vars

C13_Witness ==
    /\ submitted = 1
    /\ backend[1] = "none"
    /\ reqs = {}
    /\ jobId = NoJob
    /\ timers = {}
    /\ nextSeq = 0
    /\ ~loading

\* C14: a failed result request clears loading, and loading is never set
\* while no timer is live and no request is outstanding.
C14_NoStuckBusy ==
    [][/\ \A r \in reqs, o \in Failures : ResultResponse(r, o) => loading' = FALSE
       /\ ~(loading' /\ timers' = {} /\ reqs' = {})]_vars

\* the result request of job 1 failed: done was seen, nothing is outstanding,
\* no result is stored
C14_Witness ==
    /\ submitted = 1
    /\ jobId = 1
    /\ 1 \in doneSeen
    /\ resultCount[1] = 1
    /\ result = NoJob
    /\ reqs = {}
    /\ timers = {}
    /\ ~loading

\* C15: when the job of the latest submission is bound and the backend
\* reports done for it, then eventually its result is stored, loading is
\* cleared and the timer is stopped - unless the user supersedes the job, or
\* the timer is still live when the bounded supply of progress requests of
\* the model is used up.
C15_EventuallyTerminal ==
    \A j \in Jobs :
        (jobId = j /\ submitted = j /\ backend[j] = "done")
           ~> \/ (result = j /\ ~loading /\ timers = {})
              \/ jobId # j
              \/ (j \in timers /\ nextSeq = MaxReq)

\* C16: once the exposed snapshot of a job shows done or error, it does not
\* show running for that job afterwards.
C16_StatusMonotonic ==
    [][(progress.status \in {"done", "error"} /\ progress'.job = progress.job)
          => progress'.status # "running"]_vars

\* C17: the answers of the progress requests of one job are applied to the
\* exposed snapshot in the order in which the requests were issued.
C17_AppliedInIssueOrder ==
    [][(progress.job # NoJob /\ progress'.job = progress.job)
          => progressSeq' >= progressSeq]_vars

\* C18: a result is present only if the exposed snapshot belongs to the same
\* job and has status done.
C18_ResultOnlyWithDone ==
    result # NoJob => progress = [job |-> result, status |-> "done"]

OnlyBlanks(s) == \A i \in 1..Len(s) : s[i] = Blank

\* C20: a submission whose symbol is empty after trimming sends no start
\* request, creates no job, starts no timer and does not set loading.
C20_EmptySymbol ==
    [][(OnStart /\ OnlyBlanks(symbol))
          => /\ Sent = {}
             /\ UNCHANGED <<submitted, subMode, activeJobModeRef>>
             /\ jobId' = NoJob
             /\ timers' = {}
             /\ loading' = FALSE]_vars

\* Start was clicked with a blank symbol after job 1 had ended in error: the
\* snapshot of job 1 is gone and no second submission was transmitted
C20_Witness ==
    /\ symbol = <<Blank>>
    /\ submitted = 1
    /\ 1 \in errSeen
    /\ progress = NoProgress
    /\ jobId = NoJob
    /\ reqs = {}
    /\ ~loading

\* the other case of a letter
SwapCase(c) ==
    CASE c = "a" -> "A"
      [] c = "A" -> "a"
      [] c = "b" -> "B"
      [] c = "B" -> "b"
      [] OTHER -> c

\* the texts that differ from s in the case of one letter or by one more
\* white-space character in front or at the end
Variants(s) ==
    { <<w>> \o s : w \in WhiteSpace } \cup { s \o <<w>> : w \in WhiteSpace }
       \cup { [s EXCEPT ![i] = SwapCase(s[i])] : i \in 1..Len(s) }

BABA == <<"B", "A", "B", "A">>

\* C21: normalization is idempotent, gives the same value for texts that
\* differ only in letter case and surrounding white space ("baba", " Baba "
\* and "BABA" all give "BABA"), and the start request carries that value.
C21_Normalization ==
    /\ Clean(Clean(symbol)) = Clean(symbol)
    /\ \A v \in Variants(symbol) : Clean(v) = Clean(symbol)
    /\ \A r \in reqs :
          r.kind = "start" => (r.symbol = Clean(symbol) /\ Clean(r.symbol) = r.symbol)
    /\ Clean(<<"b", "a", "b", "a">>) = BABA
    /\ Clean(<<Blank, "B", "a", "b", "a", Blank>>) = BABA
    /\ Clean(BABA) = BABA

\* " bA" was submitted and transmitted as "BA"
C21_Witness ==
    /\ symbol = <<Blank, "b", "A">>
    /\ \E r \in reqs : r.kind = "start" /\ r.symbol = <<"B", "A">>

\* C22: the step that binds a job issues exactly one progress request, for
\* that job, and starts its timer; every other progress request is issued by
\* a tick of a live timer; a live timer can tick whether or not answers of
\* earlier progress requests are outstanding (up to the request budget).
C22_ImmediateThenTicks ==
    [][/\ \A r \in reqs :
             StartResponse(r, "ok")
                => /\ \E q \in Sent : q.kind = "progress" /\ q.job = r.job /\ Sent = {q}
                   /\ r.job \in timers'
       /\ \A q \in Sent :
             q.kind = "progress"
                => \/ \E r \in reqs : StartResponse(r, "ok") /\ r.job = q.job
                   \/ Tick(q.job)
       /\ \A j \in timers : nextSeq < MaxReq => ENABLED Tick(j)]_vars

\* the immediate request of job 1 and the request of a tick are both
\* outstanding, and the timer is live
C22_Witness ==
    /\ timers = {1}
    /\ \E q1, q2 \in reqs :
          /\ q1.kind = "progress" /\ q1.job = 1 /\ q1.seq = 1
          /\ q2.kind = "progress" /\ q2.job = 1 /\ q2.seq = 2

\* the endpoint family a client call of the given mode goes to
EndpointFamily(mode) == IF mode = "full" THEN "aggregate" ELSE "single"

\* C23: the start, progress and result requests of a job all go to the
\* endpoint family of the mode the job was submitted with, and the
\* single-mode ones carry that same mode.
C23_ModeDispatch ==
    \A r \in reqs :
        r.kind \in {"start", "progress", "result"}
           => /\ EndpointFamily(r.mode) = EndpointFamily(subMode[r.job])
              /\ EndpointFamily(r.mode) = "single" => r.mode = subMode[r.job]

\* C24: jobId and activeJobModeRef change only in onStart (the click, or its
\* continuation after the start request succeeded); handling the answer of a
\* progress or result request (success or failure), a timer tick and a
\* change of the mode selector leave both unchanged.
C24_ActiveJobFrame ==
    [][/\ (jobId' # jobId \/ activeJobModeRef' # activeJobModeRef)
             => (OnStart \/ \E r \in reqs : StartResponse(r, "ok"))
       /\ \A r \in reqs :
             (Delivered(r) /\ r.kind \in {"progress", "result"})
                => UNCHANGED <<jobId, activeJobModeRef>>
       /\ (analysisMode' # analysisMode \/ \E j \in timers : Tick(j))
             => UNCHANGED <<jobId, activeJobModeRef>>]_vars

\* job 1 is polled, a poll of it has failed, and the selector now shows
\* another mode than the one job 1 was submitted with
C24_Witness ==
    /\ jobId = 1
    /\ timers = {1}
    /\ submitted = 1
    /\ ~loading
    /\ analysisMode # activeJobModeRef
    /\ activeJobModeRef = subMode[1]
    /\ nextSeq = 2

\* round(100 * done / total): the nearest integer, a tie goes up
RoundedRatio(d, t) == (200 * d + t) \div (2 * t)

\* C25: the rendered percentage is round(100 * done / total) when total > 0
\* and 0 without a snapshot or with total 0; it lies in 0..100, is 100
\* exactly when done = total > 0, and is 20 for done 1 of total 5.
C25_Percent ==
    /\ percent = IF progress # NoProgress /\ progress.total > 0
                   THEN RoundedRatio(progress.done, progress.total) ELSE 0
    /\ percent \in 0..100
    /\ progress # NoProgress
          => /\ percent = 100 <=> (progress.done = progress.total /\ progress.total > 0)
             /\ (progress.done = 1 /\ progress.total = 5) => percent = 20

\* C26: while a polling timer is live, loading is set.
C26_PollingImpliesBusy == timers # {} => loading

\* C27: a live timer is stopped only by onStart (the click or the binding of
\* the new job) or by the handling of a done or error answer to a progress
\* request of the timer's own job.
C27_TimerStoppedByOwnJob ==
    [][\A j \in timers :
          j \notin timers'
             => \/ OnStart
                \/ \E r \in reqs : StartResponse(r, "ok")
                \/ \E r \in reqs, o \in {"done", "error"} :
                      r.job = j /\ ProgressResponse(r, o)]_vars

\* C28: every onStart clears result, progress and jobId and leaves no timer
\* live; with a symbol that is empty after trimming it sends nothing and
\* leaves loading unchanged.
C28_OnStartClears ==
    [][OnStart
          => /\ result' = NoJob
             /\ progress' = NoProgress
             /\ jobId' = NoJob
             /\ timers' = {}
             /\ intervalRef' = NoJob
             /\ OnlyBlanks(symbol) => (Sent = {} /\ UNCHANGED <<loading, submitted>>)]_vars

\* Start was clicked with a blank symbol while job 1 was still running and
\* polled (a failed poll had cleared loading): job 1 is unbound, its timer
\* is stopped and nothing was submitted
C28_Witness ==
    /\ OnlyBlanks(symbol)
    /\ submitted = 1
    /\ backend[1] = "running"
    /\ 1 \notin doneSeen \cup errSeen
    /\ jobId = NoJob
    /\ timers = {}
    /\ progress = NoProgress
    /\ ~loading

\* C29: in the variant, onStart transmits only a symbol of the loaded list;
\* with a symbol that is not in the list it sends nothing, creates no job,
\* does not set loading and sets symbolError; with a listed symbol it leaves
\* symbolError cleared.
C29_NotListedRejected ==
    [][OnStartV
          => /\ \A q \in Sent : q.kind = "start" /\ q.symbol \in allSymbols
             /\ Clean(symbol) \notin allSymbols
                   => /\ Sent = {}
                      /\ UNCHANGED <<submitted, loading>>
                      /\ jobId' = NoJob
                      /\ symbolError' = TRUE
             /\ Clean(symbol) \in allSymbols => symbolError' = FALSE]_vars

\* C29 (amended): as above, but symbolError is set only for a symbol that is
\* not empty after normalization; with an empty one onStart returns silently
\* and leaves symbolError cleared.
C29_UnlistedRejected ==
    [][OnStartV
          => /\ \A q \in Sent : q.kind = "start" /\ q.symbol \in allSymbols
             /\ Clean(symbol) \notin allSymbols
                   => /\ Sent = {}
                      /\ UNCHANGED <<submitted, loading>>
                      /\ jobId' = NoJob
                      /\ symbolError' = (Clean(symbol) # <<>>)
             /\ Clean(symbol) \in allSymbols => symbolError' = FALSE]_vars

\* the symbol list failed to load and Start was clicked with " mO "
C29_Witness ==
    /\ allSymbols = {}
    /\ \A q \in reqs : q.kind # "symbols"
    /\ symbol = <<Blank, "m", "O", Blank>>
    /\ symbolError
    /\ submitted = 0
    /\ jobId = NoJob
    /\ ~loading
====
